---------------------------- MODULE Spec2Model ----------------------------
(* TaskFlow: the entity state containers (TaskContext, ProjectContext), the  *)
(* remote entity gateway (taskService, projectService, userService over the  *)
(* ApperClient singleton) and the authentication container (AuthContext).   *)
(* Every asynchronous container operation is three steps: the call up to its *)
(* await (Issue), the external record store answering (Serve), and the code  *)
(* after the await running to the end of the handler (Deliver).              *)
EXTENDS Integers, Sequences, FiniteSets, Bags, TLC

\* ------------------------------------------------------------------ bounds
MaxOps == 2          \* container or gateway calls made in one behaviour
MaxInFlight == 2     \* calls awaiting their answer at the same time
MaxId == 3           \* identifiers the record store hands out per table
InitRecs == 2        \* records each table of the store holds at the start
MaxAdds == 2         \* tasks the Home page's form adds in one behaviour
MaxTicks == 1        \* clock readings after the first
DayLen == 2          \* clock readings in a day

\* ------------------------------------------------------------------ values
Containers == {"task", "project"}
Entities == {"task", "project", "user"}
Fields == {"y"}                      \* the payload a caller passes (title, ...)
Identities == {"alice", "bob"}
CachedAtStart == {"null", "corrupt", "alice"}   \* localStorage['apperUser'] at start
NoUser == "null"                     \* AuthContext user === null
NoError == "null"                    \* error === null
Uninitialized == "ApperClient not initialized"
Msgs == {"Network Error", ""}        \* err.message of a store rejection; "" is
                                     \* an empty or missing message
Null == [Id |-> 0, val |-> "null"]   \* a null record (currentTask === null)
Rec(i, v) == [Id |-> i, val |-> v]
Undefined == [Id |-> 0, val |-> "undefined"]   \* undefined where a record is expected
IdArgs == {1, MaxId}                 \* an identifier the store holds at the
                                     \* start, and one it does not
EditArgs == {InitRecs}               \* the identifier update and delete are
                                     \* called with: the last record of a list

\* TableNames / FieldNames: the table each entity's gateway addresses.
TableNames == [task |-> "task1", project |-> "project1", user |-> "User1"]
TASK_PROJECT == "task_project"
Tables == {"task1", "project1", "User1"}

VARIABLES
  sdk,            \* window.ApperSDK is loaded
  apperClient,    \* the module-level singleton: 0 is null, else the instance
  nClients,       \* how many ApperClient instances were constructed
  widget,         \* ApperUI.setup has installed the sign-in callbacks
  user,           \* AuthContext: user
  authLoading,    \* AuthContext: loading
  authError,      \* AuthContext: error
  apperUser,      \* localStorage['apperUser']: "null", an identity, or "corrupt"
  records,        \* [container -> tasks / projects]
  currentRecord,  \* [container -> currentTask / currentProject]
  projectTasks,   \* ProjectContext: projectTasks
  loading,        \* [container -> loading]
  error,          \* [container -> error]
  inflight,       \* the calls suspended at their await (a bag of them)
  nIssued,        \* calls made so far
  tables,         \* the external record store: [table -> sequence of records]
  assocs,         \* the external record store: table task_project
  nextId,         \* the identifier the store assigns next, per table
  calls,          \* store requests received so far, per table
  ev,             \* the call that returned last, and what it returned
  savedTasks,     \* localStorage['tasks']: absent, or the JSON text written last
  tasks,          \* Home: tasks
  isFormOpen,     \* MainFeature: isFormOpen
  formData,       \* MainFeature: formData (title, dueDate)
  errors,         \* MainFeature: errors (title, dueDate)
  now,            \* the clock: what Date.now() reads
  tz,             \* the client's time zone: local time is now + tz
  nAdded,         \* tasks added so far
  filter,         \* Home: filter
  sortDirection,  \* Home: sortDirection
  lev             \* the Home page's last event

homeVars == <<savedTasks, tasks, isFormOpen, formData, errors, now, tz, nAdded,
              filter, sortDirection, lev>>
viewVars == <<filter, sortDirection>>

vars == <<sdk, apperClient, nClients, widget, user, authLoading, authError,
          apperUser, records, currentRecord, projectTasks, loading, error,
          inflight, nIssued, tables, assocs, nextId, calls, ev, homeVars>>

remoteVars == <<sdk, apperClient, nClients, widget, user, authLoading, authError,
                apperUser, records, currentRecord, projectTasks, loading, error,
                inflight, nIssued, tables, assocs, nextId, calls, ev>>

authVars == <<widget, user, authLoading, authError, apperUser>>
ctxVars == <<records, currentRecord, projectTasks, loading, error>>
storeVars == <<tables, assocs, nextId>>
clientVars == <<sdk, apperClient, nClients>>

\* ----------------------------------------------------------------- helpers
RECURSIVE SelectSeq2(_, _)
\* Array.prototype.filter over records by a set of admitted identifiers.
SelectSeq2(s, ids) ==
  IF s = <<>> THEN <<>>
  ELSE IF Head(s).Id \in ids THEN <<Head(s)>> \o SelectSeq2(Tail(s), ids)
       ELSE SelectSeq2(Tail(s), ids)

IdsOf(s) == {s[k].Id : k \in DOMAIN s}


\* ------------------------------------------------- utils/apperClient.js
\* Mutant of NeedsClient: a client is constructed at every call.
NeedsClientEachCall == sdk

\* `!apperClient && window.ApperSDK`: a client is constructed now.
NeedsClient == apperClient = 0 /\ sdk

\* getApperClient(): the singleton after the call (0 while the SDK is absent).
getApperClient == IF NeedsClient THEN nClients + 1 ELSE apperClient

\* The effect of one getApperClient() call on the module-level singleton.
GetClient ==
  /\ apperClient' = getApperClient
  /\ nClients' = IF NeedsClient THEN nClients + 1 ELSE nClients
  /\ UNCHANGED sdk

\* ----------------------------------------------- the external record store
\* The functions each service module exports; the container of an entity has
\* one operation for each.
Kinds(c) ==
  CASE c = "task" ->
         {"fetchAll", "fetchById", "create", "update", "delete", "associate"}
    [] c = "project" ->
         {"fetchAll", "fetchById", "create", "update", "delete", "tasksByProject"}
    [] c = "user" ->
         {"fetchAll", "fetchById", "create", "update", "tasksByUser"}

\* The table the gateway function (at its stage) addresses.
TableOf(c, kind, stage) ==
  CASE kind = "associate" -> TASK_PROJECT
    [] kind = "tasksByProject" -> IF stage = 1 THEN TASK_PROJECT ELSE "task1"
    [] kind = "tasksByUser" -> "task1"
    [] OTHER -> TableNames[c]

\* The store's verb: fetchRecords, createRecord, updateRecord, deleteRecord.
VerbOf(kind) ==
  CASE kind \in {"create", "associate"} -> "createRecord"
    [] kind = "update" -> "updateRecord"
    [] kind = "delete" -> "deleteRecord"
    [] OTHER -> "fetchRecords"

Reject(m) == [ok |-> FALSE, msg |-> m, data |-> <<>>, assoc |-> <<>>]
Answer(d, a) == [ok |-> TRUE, msg |-> "", data |-> d, assoc |-> a]
NoResp == Reject("")

\* A success response that carries no data: response.data is undefined.
BareAnswer == Answer(<<Undefined>>, <<>>)

\* The store can carry out the request: an update or a delete needs the record,
\* a create needs a free identifier.
StoreCan(o) ==
  LET t == TableOf(o.c, o.kind, o.stage) IN
  CASE o.kind \in {"update", "delete"} -> o.id \in IdsOf(tables[t])
    [] o.kind \in {"create", "associate"} -> nextId[t] <= MaxId
    [] OTHER -> TRUE

\* The store's answer to the request, from its tables as they are now.
StoreAnswer(o) ==
  LET t == TableOf(o.c, o.kind, o.stage) IN
  CASE o.kind = "fetchAll" -> Answer(tables[t], <<>>)
    [] o.kind = "fetchById" -> Answer(SelectSeq2(tables[t], {o.id}), <<>>)
    [] o.kind = "create" -> Answer(<<Rec(nextId[t], o.data)>>, <<>>)
    [] o.kind = "update" -> Answer(<<Rec(o.id, o.data)>>, <<>>)
    [] o.kind = "delete" -> Answer(<<>>, <<>>)
    [] o.kind = "associate" ->
         Answer(<<>>, <<[Id |-> nextId[t], task_id |-> o.id, project_id |-> o.pid]>>)
    [] o.kind = "tasksByProject" ->
         IF o.stage = 1
         THEN Answer(<<>>, SelectSeq(assocs, LAMBDA a : a.project_id = o.pid))
         ELSE Answer(SelectSeq2(tables[t], o.ids), <<>>)
    [] o.kind = "tasksByUser" -> Answer(<<>>, <<>>)  \* no stored task has an assignee

\* The store's tables after it carried out the request.
StoreApply(o) ==
  LET t == TableOf(o.c, o.kind, o.stage) IN
  CASE o.kind = "create" ->
         /\ tables' = [tables EXCEPT ![t] = Append(@, Rec(nextId[t], o.data))]
         /\ nextId' = [nextId EXCEPT ![t] = @ + 1]
         /\ UNCHANGED assocs
    [] o.kind = "update" ->
         /\ tables' = [tables EXCEPT ![t] =
                         [k \in DOMAIN @ |->
                            IF @[k].Id = o.id THEN Rec(o.id, o.data) ELSE @[k]]]
         /\ UNCHANGED <<assocs, nextId>>
    [] o.kind = "delete" ->
         /\ tables' = [tables EXCEPT ![t] = SelectSeq2(@, IdsOf(@) \ {o.id})]
         /\ UNCHANGED <<assocs, nextId>>
    [] o.kind = "associate" ->
         /\ assocs' = Append(assocs, [Id |-> nextId[t], task_id |-> o.id,
                                      project_id |-> o.pid])
         /\ nextId' = [nextId EXCEPT ![t] = @ + 1]
         /\ UNCHANGED tables
    [] OTHER -> UNCHANGED storeVars


\* ------------------------------------------------------- the calls in flight
\* A container operation suspended at `await taskService.x(...)`: its
\* arguments, what its closure captured when it was called (cur is the
\* useCallback dependency currentTask / currentProject), the client the gateway
\* function holds, and the store's answer once it has one.
\*   phase "thrown": the gateway function threw before any request was made
\*   phase "sent":   the request is with the store
\*   phase "resp":   the store has answered (resolved or rejected)
\* during is history: what the last operation that completed while this one was
\* in flight left in the container ("none": none completed, "ok": it succeeded,
\* else the error message it set).
Op(via, c, kind, a, cur, client) ==
  [via |-> via, c |-> c, kind |-> kind, id |-> a.id, pid |-> a.pid, data |-> a.data,
   cur |-> cur, client |-> client, stage |-> 1, ids |-> {},
   tries |-> IF client = 0 THEN 0 ELSE 1,
   during |-> "none",
   phase |-> IF client = 0 THEN "thrown" ELSE "sent",
   resp |-> IF client = 0 THEN Reject(Uninitialized) ELSE NoResp]

Arg(i, p, d) == [id |-> i, pid |-> p, data |-> d]

\* The arguments each operation is called with.
Args(kind) ==
  CASE kind = "fetchById" -> {Arg(i, 0, "-") : i \in IdArgs}
    [] kind = "delete" -> {Arg(i, 0, "-") : i \in EditArgs}
    [] kind = "create" -> {Arg(0, 0, d) : d \in Fields}
    [] kind = "update" -> {Arg(i, 0, d) : i \in EditArgs, d \in Fields}
    [] kind = "associate" -> {Arg(1, 1, "-")}
    [] kind = "tasksByProject" -> {Arg(0, p, "-") : p \in {1, MaxId}}
    [] kind = "tasksByUser" -> {Arg(1, 0, "-")}
    [] OTHER -> {Arg(0, 0, "-")}

InFlight == BagToSet(inflight)
Replace(o, p) == (inflight (-) SetToBag({o})) (+) SetToBag({p})

RECURSIVE CopiesOf(_, _)
CopiesOf(b, S) ==
  IF S = {} THEN 0
  ELSE LET q == CHOOSE x \in S : TRUE IN b[q] + CopiesOf(b, S \ {q})

\* The bag b with w noted in every call's history field.
Noted(b, w) ==
  LET S == BagToSet(b)
      N(q) == [q EXCEPT !.during = w]
  IN [p \in {N(q) : q \in S} |-> CopiesOf(b, {q \in S : N(q) = p})]

\* A rejected promise whose handler has not run yet: microtasks run before
\* any other event is handled.
MicrotaskPending == \E o \in InFlight : o.phase = "thrown"

\* The calls of one behaviour address one entity: the containers and the
\* service modules share nothing but the user and the client singleton.
OneEntity(c) ==
  /\ \A o \in InFlight : o.c = c
  /\ ev.n = 0 \/ ev.c = c

\* What an operation returned to its caller.
Ret(tag, val) == [tag |-> tag, val |-> val]

\* The value of the early `return` of an operation called with no user.
Neutral(kind) ==
  CASE kind \in {"create", "update", "associate"} -> Ret("null", <<>>)
    [] kind = "delete" -> Ret("false", <<>>)
    [] OTHER -> Ret("undefined", <<>>)

\* The call that returned last; n counts the calls that returned. outcome:
\* "none" before any call returned, "unauth" for the early return, "ok" /
\* "err" for the try / catch path; msg is the message of the error the gateway
\* function threw; threw says the call itself ended by throwing to its caller;
\* tries counts the requests made for its last query; stored is the store's
\* answer to that query ("none": no request was made) and found the number of
\* records in it; during is the call's history field; again says the call
\* before it was the same operation with the same arguments, and both succeeded.
Event(o, outcome, ret, threw) ==
  [n |-> ev.n + 1, via |-> o.via, c |-> o.c, kind |-> o.kind, id |-> o.id,
   data |-> o.data, cur |-> o.cur, outcome |-> outcome,
   msg |-> IF outcome = "err" THEN o.resp.msg ELSE "", ret |-> ret,
   threw |-> threw, tries |-> o.tries, during |-> o.during,
   stored |-> IF o.client = 0 THEN "none"
              ELSE IF o.resp.ok THEN "ok" ELSE "rejected",
   found |-> Len(o.resp.data),
   again |-> ev.n > 0 /\ ev.outcome = "ok" /\ outcome = "ok"
             /\ ev.kind = o.kind /\ ev.id = o.id /\ ev.data = o.data]

NoEvent ==
  [n |-> 0, via |-> "context", c |-> "task", kind |-> "fetchAll", id |-> 0,
   data |-> "-", cur |-> Null, outcome |-> "none", msg |-> "", ret |-> Ret("undefined", <<>>),
   threw |-> FALSE, tries |-> 0, during |-> "none", stored |-> "none",
   found |-> 0, again |-> FALSE]

\* ------------------------------------------ services: the gateway functions
\* What the gateway function returns from a resolved store call.
GatewayValue(o) ==
  CASE o.kind = "fetchById" ->
         IF Len(o.resp.data) > 0 THEN Ret("record", <<o.resp.data[1]>>)
         ELSE Ret("null", <<>>)
    [] o.kind \in {"create", "update"} -> Ret("record", o.resp.data)
    [] o.kind = "associate" -> Ret("record", <<>>)
    [] o.kind = "delete" -> Ret("undefined", <<>>)
    [] OTHER -> Ret("list", o.resp.data)

\* Mutant of GatewayThrows: fetchById throws when no record matches.
GatewayThrowsOnEmpty(o) ==
  ~o.resp.ok \/ (o.kind = "fetchById" /\ Len(o.resp.data) = 0)

\* The gateway function ends by throwing: the client is null, or the store
\* rejected the request (the catch block logs and rethrows).
GatewayThrows(o) == ~o.resp.ok

\* Mutant of RetryAfterReject: one more request after a rejection.
RetryOnce(o) == o.tries < 2

\* The catch block of a gateway function makes no second request.
RetryAfterReject(o) == FALSE

\* Mutant of SecondQuery: the task query is made whatever was found.
SecondQueryAlways(o) ==
  o.kind = "tasksByProject" /\ o.stage = 1 /\ o.resp.ok

\* fetchTasksByProject: associations were found, the task query follows.
SecondQuery(o) ==
  o.kind = "tasksByProject" /\ o.stage = 1 /\ o.resp.ok /\ Len(o.resp.assoc) > 0

\* ------------------------------------------------ context: the containers
Noun(c) == IF c = "task" THEN "task" ELSE "project"

\* The fallback of `err.message || '...'` in each catch block.
Fallback(o) ==
  CASE o.kind = "fetchAll" -> "Failed to fetch " \o Noun(o.c) \o "s"
    [] o.kind = "fetchById" ->
         "Failed to fetch " \o Noun(o.c) \o " with ID " \o ToString(o.id)
    [] o.kind = "create" -> "Failed to create " \o Noun(o.c)
    [] o.kind = "update" ->
         "Failed to update " \o Noun(o.c) \o " with ID " \o ToString(o.id)
    [] o.kind = "delete" ->
         "Failed to delete " \o Noun(o.c) \o " with ID " \o ToString(o.id)
    [] o.kind = "associate" ->
         "Failed to associate task " \o ToString(o.id) \o " with project "
           \o ToString(o.pid)
    [] o.kind = "tasksByProject" ->
         "Failed to fetch tasks for project with ID " \o ToString(o.pid)

\* Mutant of ErrorMessage: err.message without its fallback.
ErrorMessageRaw(o) == o.resp.msg

\* setError(err.message || fallback)
ErrorMessage(o) == IF o.resp.msg # "" THEN o.resp.msg ELSE Fallback(o)

\* setTasks(prev => [...prev, newTask])
appendRecord(prev, new) == Append(prev, new)

\* Mutant of replaceRecord: an update of a record the list lacks adds it.
replaceOrAppend(prev, taskId, updated) ==
  IF \E k \in DOMAIN prev : prev[k].Id = taskId
  THEN [k \in DOMAIN prev |-> IF prev[k].Id = taskId THEN updated ELSE prev[k]]
  ELSE Append(prev, updated)

\* Mutant of replaceRecord: the map without its identifier test.
replaceEvery(prev, taskId, updated) == [k \in DOMAIN prev |-> updated]

\* setTasks(prev => prev.map(t => t.Id === taskId ? updatedTask : t))
replaceRecord(prev, taskId, updated) ==
  [k \in DOMAIN prev |-> IF prev[k].Id = taskId THEN updated ELSE prev[k]]

\* Mutant of removeRecord: removes by position, not by identifier.
removeHead(prev, taskId) == IF prev = <<>> THEN prev ELSE Tail(prev)

\* setTasks(prev => prev.filter(t => t.Id !== taskId))
removeRecord(prev, taskId) == SelectSeq(prev, LAMBDA t : t.Id # taskId)

\* prev.map(t => t.Id === ...) and prev.filter(t => t.Id !== ...) read Id of
\* every element: on an undefined element the updater throws a TypeError while
\* React renders, and the page is gone.
UpdaterThrows(o, prev) ==
  /\ o.kind \in {"update", "delete"}
  /\ \E k \in DOMAIN prev : prev[k] = Undefined

\* `currentTask && currentTask.Id === taskId`, on the closure's currentTask.
IsCurrent(cur, taskId) == cur \notin {Null, Undefined} /\ cur.Id = taskId

\* Mutant of RecordsAfter: fetchTasks adds what it fetched to the list.
RecordsAfterAdded(o, prev) ==
  CASE o.kind = "fetchAll" -> prev \o o.resp.data
    [] o.kind = "create" -> appendRecord(prev, o.resp.data[1])
    [] o.kind = "update" -> replaceRecord(prev, o.id, o.resp.data[1])
    [] o.kind = "delete" -> removeRecord(prev, o.id)
    [] OTHER -> prev

\* Mutant of RecordsAfter: associateWithProject takes the task off the list.
RecordsAfterMoved(o, prev) ==
  CASE o.kind = "fetchAll" -> o.resp.data
    [] o.kind = "create" -> appendRecord(prev, o.resp.data[1])
    [] o.kind = "update" -> replaceRecord(prev, o.id, o.resp.data[1])
    [] o.kind \in {"delete", "associate"} -> removeRecord(prev, o.id)
    [] OTHER -> prev

\* records after the try block of a resolved operation.
RecordsAfter(o, prev) ==
  CASE o.kind = "fetchAll" -> o.resp.data
    [] o.kind = "create" -> appendRecord(prev, o.resp.data[1])
    [] o.kind = "update" -> replaceRecord(prev, o.id, o.resp.data[1])
    [] o.kind = "delete" -> removeRecord(prev, o.id)
    [] OTHER -> prev

\* currentTask after the try block of a resolved operation.
CurrentAfter(o, prev) ==
  CASE o.kind = "fetchById" ->
         IF GatewayValue(o).tag = "record" THEN GatewayValue(o).val[1] ELSE Null
    [] o.kind = "update" -> IF IsCurrent(o.cur, o.id) THEN o.resp.data[1] ELSE prev
    [] o.kind = "delete" -> IF IsCurrent(o.cur, o.id) THEN Null ELSE prev
    [] OTHER -> prev

\* What the operation returns from its try block.
ReturnOk(o) ==
  CASE o.kind = "fetchAll" -> Ret("undefined", <<>>)
    [] o.kind = "delete" -> Ret("true", <<>>)
    [] OTHER -> GatewayValue(o)

\* What the operation returns from its catch block.
ReturnErr(o) ==
  CASE o.kind = "fetchAll" -> Ret("undefined", <<>>)
    [] o.kind = "delete" -> Ret("false", <<>>)
    [] o.kind = "tasksByProject" -> Ret("list", <<>>)
    [] OTHER -> Ret("null", <<>>)

\* Mutant of ErrorAfter: the try block ends with setError(null).
ErrorAfterCleared(o, prev) == IF GatewayThrows(o) THEN ErrorMessage(o) ELSE NoError

\* error after the operation: only the catch block calls setError.
ErrorAfter(o, prev) == IF GatewayThrows(o) THEN ErrorMessage(o) ELSE prev

\* Mutant of LoadingAfter: setLoading(false) at the end of the try block only.
LoadingInTryOnly(o) == ~o.resp.ok

\* The finally block: setLoading(false).
LoadingAfter(o) == FALSE


\* ----------------------------------------- pages/Home and MainFeature
\* The local task list of the Home page, kept in localStorage['tasks'], and
\* the form that adds to it. A task is {id, title, createdAt, isCompleted,
\* completedAt}; the form's other fields (description, dueDate, priority,
\* category) are copied into the task untouched and left out of it here.
Titles == {"", " ", "a"}             \* what the title input can hold
TimeZones == {0 - 1, 0, 1}           \* local time minus UTC, in clock readings
Epoch == 2 * DayLen                  \* the first clock reading
LastInstant == Epoch + MaxTicks
Days == 0..((LastInstant + 1) \div DayLen + 2)
NoDate == ""                         \* dueDate: ''
NullDate == "null"                   \* completedAt: null
NoFieldError == ""                   \* errors[name] undefined or null

\* String.prototype.trim
Trim(s) == IF s = " " THEN "" ELSE s

\* The value of a date input for day d: 'YYYY-MM-DD'.
DateString(d) == "D" \o ToString(d)

\* new Date('YYYY-MM-DD').getTime(): midnight UTC of that day.
DateValue(str) == DayLen * (CHOOSE d \in Days : DateString(d) = str)

\* Date.now().toString() and new Date().toISOString()
TimeString(t) == ToString(t)
toISOString(t) == "T" \o ToString(t)

\* new Date().setHours(0, 0, 0, 0): the instant of the last local midnight.
LocalDay == (now + tz) \div DayLen
startOfToday == LocalDay * DayLen - tz

\* JSON.stringify and JSON.parse of the task list.
JString(str) == [t |-> "string", v |-> str]
JNull == [t |-> "null", v |-> ""]
JBoolean(b) == [t |-> "boolean", v |-> IF b THEN "true" ELSE "false"]

stringifyTask(task) ==
  [id |-> JString(task.id), title |-> JString(task.title),
   createdAt |-> JString(task.createdAt),
   isCompleted |-> JBoolean(task.isCompleted),
   completedAt |-> IF task.completedAt = NullDate THEN JNull
                   ELSE JString(task.completedAt)]

parseTask(j) ==
  [id |-> j.id.v, title |-> j.title.v,
   createdAt |-> j.createdAt.v, isCompleted |-> (j.isCompleted.v = "true"),
   completedAt |-> IF j.completedAt.t = "null" THEN NullDate ELSE j.completedAt.v]

stringify(ts) == [k \in DOMAIN ts |-> stringifyTask(ts[k])]
parse(text) == [k \in DOMAIN text |-> parseTask(text[k])]

\* localStorage: getItem('tasks') is null, or the text set last.
Absent == [present |-> FALSE, text |-> <<>>]
Item(text) == [present |-> TRUE, text |-> text]

\* useState(() => { ... }): savedTasks ? JSON.parse(savedTasks) : []
loadTasks(saved) == IF saved.present THEN parse(saved.text) ELSE <<>>

\* Mutant of persist: the effect has no dependency, it runs on mount only.
persistOnMount(ts, prev, mounting) ==
  IF mounting THEN Item(stringify(ts)) ELSE prev

\* useEffect(() => localStorage.setItem('tasks', JSON.stringify(tasks)), [tasks])
persist(ts, prev, mounting) == Item(stringify(ts))

BlankForm == [title |-> "", dueDate |-> NoDate]
NoErrors == [title |-> NoFieldError, dueDate |-> NoFieldError]

\* Mutant of TitleError: the title is tested without trimming it.
TitleErrorUntrimmed(data) ==
  IF data.title = "" THEN "Title is required" ELSE NoFieldError

\* validateForm: newErrors.title
TitleError(data) ==
  IF Trim(data.title) = "" THEN "Title is required" ELSE NoFieldError

\* validateForm: newErrors.dueDate
DueDateError(data) ==
  IF data.dueDate # NoDate /\ DateValue(data.dueDate) < startOfToday
  THEN "Due date cannot be in the past" ELSE NoFieldError

\* validateForm: the errors it sets; it returns true when there is none.
validateForm(data) == [title |-> TitleError(data), dueDate |-> DueDateError(data)]

\* handleSubmit: id: Date.now().toString()
NewId == TimeString(now)

\* Mutant of newTask: the form's task is created completed.
newTaskCompleted(data) ==
  [id |-> NewId, title |-> data.title,
   createdAt |-> toISOString(now), isCompleted |-> TRUE,
   completedAt |-> toISOString(now)]

\* handleSubmit: the task made of the form's data.
newTask(data) ==
  [id |-> NewId, title |-> data.title,
   createdAt |-> toISOString(now), isCompleted |-> FALSE,
   completedAt |-> NullDate]

\* Mutant of toggled: completedAt is kept when the task is reopened.
toggledKeepingDate(task) ==
  [task EXCEPT !.isCompleted = ~task.isCompleted,
               !.completedAt = IF ~task.isCompleted THEN toISOString(now)
                               ELSE task.completedAt]

\* toggleTaskCompletion: the task with its completion flipped.
toggled(task) ==
  [task EXCEPT !.isCompleted = ~task.isCompleted,
               !.completedAt = IF ~task.isCompleted THEN toISOString(now)
                               ELSE NullDate]

\* Mutant of withoutTask: the filter keeps only later tasks.
withoutTaskAndEarlier(ts, taskId) ==
  IF \E k \in DOMAIN ts : ts[k].id = taskId
  THEN SubSeq(ts, (CHOOSE k \in DOMAIN ts : ts[k].id = taskId /\
                     \A i \in DOMAIN ts : ts[i].id = taskId => i <= k) + 1, Len(ts))
  ELSE ts

\* deleteTask: tasks.filter(task => task.id !== taskId)
withoutTask(ts, taskId) == SelectSeq(ts, LAMBDA task : task.id # taskId)

\* new Date(task.createdAt): the instant the ISO string names.
DateOf(str) == CHOOSE t \in 0..LastInstant : toISOString(t) = str

\* The comparator of the sort: dateB - dateA or dateA - dateB.
compare(a, b, dir) ==
  IF dir = "desc" THEN DateOf(b.createdAt) - DateOf(a.createdAt)
  ELSE DateOf(a.createdAt) - DateOf(b.createdAt)

RECURSIVE sort(_, _)
\* Array.prototype.sort(compareFn), which is stable: the last element goes
\* behind the elements the comparator does not put after it.
sort(list, dir) ==
  IF list = <<>> THEN <<>>
  ELSE LET x == list[Len(list)]
           rest == SubSeq(list, 1, Len(list) - 1)
           before == SelectSeq(rest, LAMBDA y : compare(y, x, dir) <= 0)
           after == SelectSeq(rest, LAMBDA y : compare(y, x, dir) > 0)
       IN sort(before, dir) \o <<x>> \o sort(after, dir)

\* filteredTasks: tasks.filter(...) under the filter chosen.
filteredTasksOf(ts, f) ==
  SelectSeq(ts, LAMBDA task : CASE f = "active" -> ~task.isCompleted
                                [] f = "completed" -> task.isCompleted
                                [] OTHER -> TRUE)

\* sortedTasks: [...filteredTasks].sort(...), the rows the page shows.
sortedTasksOf(ts, f, dir) == sort(filteredTasksOf(ts, f), dir)
sortedTasks == sortedTasksOf(tasks, filter, sortDirection)

\* Mutant of tasksAfterRender: the sort is applied to tasks itself.
tasksSortedInPlace(ts, f, dir) == sort(ts, dir)

\* What a render leaves in the tasks array: filter returns a new array and
\* the sort permutes a copy of that, so tasks is as it was.
tasksAfterRender(ts, f, dir) == ts

\* The Home page's last event.
HomeEvent(kind, id) == [kind |-> kind, id |-> id]

\* A list saved by an earlier visit.
EarlierTask ==
  [id |-> TimeString(1), title |-> "a",
   createdAt |-> toISOString(1), isCompleted |-> TRUE,
   completedAt |-> toISOString(1)]
SavedEarlier == {Absent, Item(<<>>), Item(stringify(<<EarlierTask>>))}

\* Home and MainFeature after their first render and its effect.
HomeMounted(saved, zone) ==
  /\ tasks = loadTasks(saved)
  /\ savedTasks = persist(loadTasks(saved), saved, TRUE)
  /\ isFormOpen = FALSE
  /\ formData = BlankForm
  /\ errors = NoErrors
  /\ now = Epoch
  /\ tz = zone
  /\ nAdded = 0
  /\ filter = "all"
  /\ sortDirection = "desc"
  /\ lev = HomeEvent("mount", "")

\* The clock advances.
Tick ==
  /\ now < LastInstant
  /\ now' = now + 1
  /\ UNCHANGED <<remoteVars, savedTasks, tasks, isFormOpen, formData, errors, tz,
                 nAdded, viewVars, lev>>

\* The page is left and visited again: Home and MainFeature mount anew.
mountHome ==
  /\ tasks' = tasksAfterRender(loadTasks(savedTasks), "all", "desc")
  /\ savedTasks' = persist(tasks', savedTasks, TRUE)
  /\ isFormOpen' = FALSE
  /\ formData' = BlankForm
  /\ errors' = NoErrors
  /\ filter' = "all"
  /\ sortDirection' = "desc"
  /\ lev' = HomeEvent("mount", "")
  /\ UNCHANGED <<remoteVars, now, tz, nAdded>>

\* setIsFormOpen(true) / setIsFormOpen(false): the form's data and errors stay.
setIsFormOpen(open) ==
  /\ isFormOpen # open
  /\ isFormOpen' = open
  /\ UNCHANGED <<remoteVars, savedTasks, tasks, formData, errors, now, tz, nAdded,
                 viewVars, lev>>

\* handleChange: the field is set and its error, if any, cleared.
handleChange(name, value) ==
  /\ isFormOpen
  /\ formData[name] # value
  /\ formData' = [formData EXCEPT ![name] = value]
  /\ errors' = [errors EXCEPT ![name] = NoFieldError]
  /\ UNCHANGED <<remoteVars, savedTasks, tasks, isFormOpen, now, tz, nAdded,
                 viewVars, lev>>

\* handleSubmit: validateForm, and if it passes onAddTask(newTask) = Home's
\* addTask, the form reset and closed, and Home's effect.
handleSubmit ==
  /\ isFormOpen
  /\ nAdded < MaxAdds
  /\ errors' = validateForm(formData)
  /\ IF validateForm(formData) # NoErrors
     THEN /\ lev' = HomeEvent("reject", "")
          /\ UNCHANGED <<savedTasks, tasks, isFormOpen, formData, nAdded>>
     ELSE /\ tasks' = tasksAfterRender(Append(tasks, newTask(formData)),
                                       filter, sortDirection)
          /\ savedTasks' = persist(tasks', savedTasks, FALSE)
          /\ formData' = BlankForm
          /\ isFormOpen' = FALSE
          /\ nAdded' = nAdded + 1
          /\ lev' = HomeEvent("add", newTask(formData).id)
  /\ UNCHANGED <<remoteVars, now, tz, viewVars>>

\* toggleTaskCompletion(task.id), from the list's checkbox, and Home's effect.
toggleTaskCompletion(taskId) ==
  /\ tasks' = tasksAfterRender(
                 [k \in DOMAIN tasks |->
                    IF tasks[k].id = taskId THEN toggled(tasks[k]) ELSE tasks[k]],
                 filter, sortDirection)
  /\ savedTasks' = persist(tasks', savedTasks, FALSE)
  /\ lev' = HomeEvent("toggle", taskId)
  /\ UNCHANGED <<remoteVars, isFormOpen, formData, errors, now, tz, nAdded,
                 viewVars>>

\* deleteTask(task.id), from the list's button, and Home's effect.
deleteTask(taskId) ==
  /\ tasks' = tasksAfterRender(withoutTask(tasks, taskId), filter, sortDirection)
  /\ savedTasks' = persist(tasks', savedTasks, FALSE)
  /\ lev' = HomeEvent("delete", taskId)
  /\ UNCHANGED <<remoteVars, isFormOpen, formData, errors, now, tz, nAdded,
                 viewVars>>

\* setFilter(e.target.value), from the select shown while there are tasks:
\* the page renders again; tasks is the same array, so the effect does not run.
setFilter(f) ==
  /\ tasks # <<>>
  /\ filter # f
  /\ filter' = f
  /\ tasks' = tasksAfterRender(tasks, f, sortDirection)
  /\ lev' = HomeEvent("filter", f)
  /\ UNCHANGED <<remoteVars, savedTasks, isFormOpen, formData, errors, now, tz,
                 nAdded, sortDirection>>

\* setSortDirection(sortDirection === 'desc' ? 'asc' : 'desc'), from the
\* button next to the select.
setSortDirection ==
  /\ tasks # <<>>
  /\ sortDirection' = IF sortDirection = "desc" THEN "asc" ELSE "desc"
  /\ tasks' = tasksAfterRender(tasks, filter, sortDirection')
  /\ lev' = HomeEvent("sort", sortDirection')
  /\ UNCHANGED <<remoteVars, savedTasks, isFormOpen, formData, errors, now, tz,
                 nAdded, filter>>

\* The identifiers of the rows shown (the sort only orders the rows the filter
\* lets through), and the dates the date input offers.
ListedIds ==
  LET shown == filteredTasksOf(tasks, filter) IN {shown[k].id : k \in DOMAIN shown}
DueDates == {NoDate, DateString(LocalDay - 1), DateString(LocalDay)}


\* ------------------------------------------------------------------- Init
InitTable == [k \in 1..InitRecs |-> Rec(k, "x")]

InitRemote ==
  /\ sdk \in BOOLEAN
  /\ apperClient = 0
  /\ nClients = 0
  /\ widget = FALSE
  /\ user = NoUser
  /\ authLoading = TRUE
  /\ authError = NoError
  /\ apperUser \in CachedAtStart
  /\ records = [c \in Containers |-> <<>>]
  /\ currentRecord = [c \in Containers |-> Null]
  /\ projectTasks = <<>>
  /\ loading = [c \in Containers |-> FALSE]
  /\ error = [c \in Containers |-> NoError]
  /\ inflight = EmptyBag
  /\ nIssued = 0
  /\ tables = [t \in Tables |-> InitTable]
  /\ assocs = <<[Id |-> 1, task_id |-> 1, project_id |-> 1]>>
  /\ nextId = [t \in Tables \cup {TASK_PROJECT} |->
                 IF t = TASK_PROJECT THEN 2 ELSE InitRecs + 1]
  /\ calls = [t \in Tables \cup {TASK_PROJECT} |-> 0]
  /\ ev = NoEvent

\* The containers and the gateway at their start; the Home page on its first
\* visit, in a client on UTC.
Init == InitRemote /\ HomeMounted(Absent, 0)

\* The Home page starting on what an earlier visit saved, in a client on UTC,
\* the rest idle.
InitHome ==
  /\ InitRemote /\ sdk /\ apperUser = "null"
  /\ \E saved \in SavedEarlier : HomeMounted(saved, 0)

\* ----------------------------------------------------------- environment
\* The SDK script finishes loading: window.ApperSDK is defined from now on.
LoadSDK ==
  /\ UNCHANGED homeVars
  /\ ~MicrotaskPending
  /\ ~sdk
  /\ sdk' = TRUE
  /\ UNCHANGED <<apperClient, nClients, authVars, ctxVars, inflight, nIssued,
                 storeVars, calls, ev>>

\* ------------------------------------------------ context: AuthContext
\* Mutant of storeUserData: the session record is never written.
storeUserDataNever(u) == apperUser

\* authService.storeUserData(userData): written only if userData is truthy.
storeUserData(u) == IF u # NoUser THEN u ELSE apperUser

\* Mutant of getUserData: the stored text is returned without parsing it.
getUserDataUnparsed == IF apperUser # "null" THEN apperUser ELSE NoUser

\* authService.getUserData(): the parsed session record, or null.
getUserData == IF apperUser \in Identities THEN apperUser ELSE NoUser

\* The mount effect of AuthProvider.
loadUserData ==
  /\ UNCHANGED homeVars
  /\ ~MicrotaskPending
  /\ authLoading
  /\ user' = IF getUserData # NoUser THEN getUserData ELSE user
  /\ authLoading' = FALSE
  /\ UNCHANGED <<clientVars, widget, authError, apperUser, ctxVars, inflight,
                 nIssued, storeVars, calls, ev>>

\* LoginPage's effect, not authenticated: setupAuth -> authService.setupAuthUI.
setupAuthUI ==
  /\ UNCHANGED homeVars
  /\ ~MicrotaskPending
  /\ user = NoUser
  /\ ~widget
  /\ GetClient
  /\ widget' = (getApperClient # 0)
  /\ UNCHANGED <<user, authLoading, authError, apperUser, ctxVars, inflight,
                 nIssued, storeVars, calls, ev>>

\* The widget's onSuccess: storeUserData(user.data), then handleAuthSuccess.
handleAuthSuccess(u) ==
  /\ UNCHANGED homeVars
  /\ ~MicrotaskPending
  /\ widget
  /\ apperUser' = storeUserData(u)
  /\ user' = u
  /\ authError' = NoError
  /\ UNCHANGED <<clientVars, widget, authLoading, ctxVars, inflight, nIssued,
                 storeVars, calls, ev>>

\* The widget's onError: handleAuthError.
handleAuthError(m) ==
  /\ UNCHANGED homeVars
  /\ ~MicrotaskPending
  /\ widget
  /\ authError' = IF m # "" THEN m ELSE "Authentication failed"
  /\ user' = NoUser
  /\ UNCHANGED <<clientVars, widget, authLoading, apperUser, ctxVars, inflight,
                 nIssued, storeVars, calls, ev>>

\* AuthContext.logout: authService.logout(), then setUser(null).
logout ==
  /\ UNCHANGED homeVars
  /\ ~MicrotaskPending
  /\ user # NoUser \/ apperUser # "null"
  /\ apperUser' = "null"
  /\ user' = NoUser
  /\ UNCHANGED <<clientVars, widget, authLoading, authError, ctxVars, inflight,
                 nIssued, storeVars, calls, ev>>


\* ------------------------------------- context: TaskContext, ProjectContext
\* setCurrentTask / setCurrentProject, exposed in the context value.
setCurrentTask(c, r) ==
  /\ UNCHANGED homeVars
  /\ ~MicrotaskPending
  /\ currentRecord[c] # r
  /\ currentRecord' = [currentRecord EXCEPT ![c] = r]
  /\ UNCHANGED <<clientVars, authVars, records, projectTasks, loading, error,
                 inflight, nIssued, storeVars, calls, ev>>

\* Mutant of Gate: the operation without its early return.
GateOff == FALSE

\* `if (!user) return ...;` at the head of every operation.
Gate == user = NoUser

\* setLoading(true); setError(null); before the try block.
LoadingAtStart(c) == [loading EXCEPT ![c] = TRUE]
ErrorAtStart(c) == [error EXCEPT ![c] = NoError]

\* The gateway function up to its await: getApperClient(), the null check, the
\* request handed to the store.
CallGateway(via, c, kind, a, cur) ==
  /\ GetClient
  /\ inflight' = inflight (+) SetToBag({Op(via, c, kind, a, cur, getApperClient)})
  /\ calls' = IF getApperClient = 0 THEN calls
              ELSE [calls EXCEPT ![TableOf(c, kind, 1)] = @ + 1]

\* A container operation is called: the early return with no user, else the
\* code up to `await taskService.x(...)`.
Issue(c, kind, a) ==
  /\ UNCHANGED homeVars
  /\ ~MicrotaskPending
  /\ nIssued < MaxOps
  /\ BagCardinality(inflight) < MaxInFlight
  /\ OneEntity(c)
  /\ nIssued' = nIssued + 1
  /\ IF Gate
     THEN /\ ev' = Event(Op("context", c, kind, a, currentRecord[c], 0),
                         "unauth", Neutral(kind), FALSE)
          /\ UNCHANGED <<clientVars, ctxVars, inflight, calls>>
     ELSE /\ loading' = LoadingAtStart(c)
          /\ error' = ErrorAtStart(c)
          /\ CallGateway("context", c, kind, a, currentRecord[c])
          /\ UNCHANGED <<records, currentRecord, projectTasks, ev>>
  /\ UNCHANGED <<authVars, storeVars>>

\* A gateway function is called as the service module exports it (userService
\* has no container in this repository; its functions are only exported).
ServiceCall(c, kind, a) ==
  /\ UNCHANGED homeVars
  /\ ~MicrotaskPending
  /\ nIssued < MaxOps
  /\ BagCardinality(inflight) < MaxInFlight
  /\ OneEntity(c)
  /\ nIssued' = nIssued + 1
  /\ CallGateway("service", c, kind, a, Null)
  /\ UNCHANGED <<authVars, ctxVars, storeVars, ev>>

\* The external record store answers a request: it carries it out, or rejects it.
Serve(o, m) ==
  /\ UNCHANGED homeVars
  /\ ~MicrotaskPending
  /\ o.phase = "sent"
  /\ \/ /\ m = "ok"
        /\ StoreCan(o)
        /\ inflight' = Replace(o, [o EXCEPT !.phase = "resp", !.resp = StoreAnswer(o)])
        /\ StoreApply(o)
     \/ /\ m \in Msgs
        /\ inflight' = Replace(o, [o EXCEPT !.phase = "resp", !.resp = Reject(m)])
        /\ UNCHANGED storeVars
  /\ UNCHANGED <<clientVars, authVars, ctxVars, nIssued, calls, ev>>

\* The store carries out a create or an update and resolves the request with a
\* response that has no data.
ServeBare(o) ==
  /\ UNCHANGED homeVars
  /\ ~MicrotaskPending
  /\ o.phase = "sent"
  /\ o.kind \in {"create", "update"}
  /\ StoreCan(o)
  /\ inflight' = Replace(o, [o EXCEPT !.phase = "resp", !.resp = BareAnswer])
  /\ StoreApply(o)
  /\ UNCHANGED <<clientVars, authVars, ctxVars, nIssued, calls, ev>>

\* The gateway function resumes and makes another request: the task query of
\* fetchTasksByProject, or a retry.
Resume(o) ==
  /\ UNCHANGED homeVars
  /\ o.phase = "resp"
  /\ SecondQuery(o) \/ (~o.resp.ok /\ RetryAfterReject(o))
  /\ inflight' = Replace(o,
       IF SecondQuery(o)
       THEN [o EXCEPT !.phase = "sent", !.stage = 2, !.resp = NoResp, !.tries = 1,
                      !.ids = {o.resp.assoc[k].task_id : k \in DOMAIN o.resp.assoc}]
       ELSE [o EXCEPT !.phase = "sent", !.resp = NoResp, !.tries = @ + 1])
  /\ calls' = [calls EXCEPT ![TableOf(o.c, o.kind, IF SecondQuery(o) THEN 2 ELSE o.stage)]
                 = @ + 1]
  /\ UNCHANGED <<clientVars, authVars, ctxVars, nIssued, storeVars, ev>>

\* The operation resumes after its await and runs to its end: the rest of the
\* try block or the catch block, then the finally block.
Deliver(o) ==
  /\ UNCHANGED homeVars
  /\ o.phase \in {"thrown", "resp"}
  /\ o.phase = "thrown" \/ ~MicrotaskPending
  /\ ~SecondQuery(o)
  /\ o.resp.ok \/ ~RetryAfterReject(o)
  /\ IF o.via = "service" \/ GatewayThrows(o) THEN TRUE
     ELSE ~UpdaterThrows(o, records[o.c])
  /\ inflight' =
       IF o.via = "service" THEN inflight (-) SetToBag({o})
       ELSE Noted(inflight (-) SetToBag({o}),
                  IF GatewayThrows(o) THEN ErrorMessage(o) ELSE "ok")
  /\ IF o.via = "service"
     THEN /\ ev' = IF GatewayThrows(o)
                   THEN Event(o, "err", Ret("undefined", <<>>), TRUE)
                   ELSE Event(o, "ok", GatewayValue(o), FALSE)
          /\ UNCHANGED ctxVars
     ELSE IF ~GatewayThrows(o)
     THEN /\ records' = [records EXCEPT ![o.c] = RecordsAfter(o, @)]
          /\ currentRecord' = [currentRecord EXCEPT ![o.c] = CurrentAfter(o, @)]
          /\ projectTasks' = IF o.kind = "tasksByProject" THEN o.resp.data
                             ELSE projectTasks
          /\ loading' = [loading EXCEPT ![o.c] = LoadingAfter(o)]
          /\ ev' = Event(o, "ok", ReturnOk(o), FALSE)
          /\ error' = [error EXCEPT ![o.c] = ErrorAfter(o, @)]
     ELSE /\ error' = [error EXCEPT ![o.c] = ErrorAfter(o, @)]
          /\ loading' = [loading EXCEPT ![o.c] = LoadingAfter(o)]
          /\ ev' = Event(o, "err", ReturnErr(o), FALSE)
          /\ UNCHANGED <<records, currentRecord, projectTasks>>
  /\ UNCHANGED <<clientVars, authVars, nIssued, storeVars, calls>>

\* ------------------------------------------------------------------- Next
CurrentChoices(c) ==
  {Null} \cup {r \in {records[c][k] : k \in DOMAIN records[c]} : r.Id \in EditArgs}

\* The containers at work: sessions that start from the cached session record
\* and end by sign-out, with the record store behind the gateway.
Next ==
  \/ LoadSDK
  \/ loadUserData
  \/ logout
  \/ \E c \in Containers : \E r \in CurrentChoices(c) : setCurrentTask(c, r)
  \/ \E c \in Containers : \E kind \in Kinds(c) : \E a \in Args(kind) : Issue(c, kind, a)
  \/ \E o \in InFlight : \E m \in {"ok"} \cup Msgs : Serve(o, m)
  \/ \E o \in InFlight : Resume(o)
  \/ \E o \in InFlight : Deliver(o)

Spec == Init /\ [][Next]_vars

\* Every gateway call eventually resolves, and the code after an await runs.
ServeSome == \E o \in InFlight : \E m \in {"ok"} \cup Msgs : Serve(o, m)
ResumeSome == \E o \in InFlight : Resume(o)
DeliverSome == \E o \in InFlight : Deliver(o)

Progress == ServeSome \/ ResumeSome \/ DeliverSome

\* The containers' operations alone (no setCurrentTask), and while a call is in
\* flight, one of them takes its next step.
NextCalls ==
  \/ LoadSDK
  \/ loadUserData
  \/ logout
  \/ \E c \in Containers : \E kind \in Kinds(c) : \E a \in Args(kind) : Issue(c, kind, a)
  \/ Progress

SpecFair == Init /\ [][NextCalls]_vars /\ WF_vars(Progress)

\* The gateway at work: the exported functions of the three service modules,
\* called directly, and the sign-in page's setup, which also asks for the client.
NextGateway ==
  \/ LoadSDK
  \/ setupAuthUI
  \/ \E c \in Entities : \E kind \in Kinds(c) : \E a \in Args(kind) :
       ServiceCall(c, kind, a)
  \/ \E o \in InFlight : \E m \in {"ok"} \cup Msgs : Serve(o, m)
  \/ \E o \in InFlight : Resume(o)
  \/ \E o \in InFlight : Deliver(o)

SpecGateway == Init /\ [][NextGateway]_vars

\* The authentication container with the sign-in widget: the widget calls
\* back with an identity, with no user data, or with an error; the pages
\* fetch their lists, which the containers allow to a signed-in user.
NextAuth ==
  \/ LoadSDK
  \/ loadUserData
  \/ setupAuthUI
  \/ \E u \in Identities \cup {NoUser} : handleAuthSuccess(u)
  \/ \E m \in Msgs : handleAuthError(m)
  \/ logout
  \/ \E c \in Containers : \E a \in Args("fetchAll") : Issue(c, "fetchAll", a)
  \/ ServeSome
  \/ DeliverSome

SpecAuth == Init /\ [][NextAuth]_vars

\* The containers over a store that may answer a create or an update with a
\* success response without data.
NextBare ==
  \/ LoadSDK
  \/ loadUserData
  \/ \E c \in Containers : \E kind \in {"fetchAll", "create", "update", "delete"} :
       \E a \in Args(kind) : Issue(c, kind, a)
  \/ \E o \in InFlight : \E m \in {"ok"} \cup Msgs : Serve(o, m)
  \/ \E o \in InFlight : ServeBare(o)
  \/ \E o \in InFlight : Deliver(o)

SpecBare == Init /\ [][NextBare]_vars

\* The Home page at work: its form, its list, the clock, and revisits.
NextHome ==
  \/ Tick
  \/ mountHome
  \/ \E open \in BOOLEAN : setIsFormOpen(open)
  \/ \E value \in Titles : handleChange("title", value)
  \/ \E value \in DueDates : handleChange("dueDate", value)
  \/ handleSubmit
  \/ \E taskId \in ListedIds : toggleTaskCompletion(taskId)
  \/ \E taskId \in ListedIds : deleteTask(taskId)

SpecHome == InitHome /\ [][NextHome]_vars

\* The Home page on its first visit, in a client of any time zone.
InitZones ==
  /\ InitRemote /\ sdk /\ apperUser = "null"
  /\ \E zone \in TimeZones : HomeMounted(Absent, zone)

SpecZones == InitZones /\ [][NextHome]_vars

\* The Home page with its filter and sort controls, on a first visit.
InitViews == InitRemote /\ sdk /\ apperUser = "null" /\ HomeMounted(Absent, 0)

NextViews ==
  \/ Tick
  \/ \E open \in BOOLEAN : setIsFormOpen(open)
  \/ \E value \in Titles : handleChange("title", value)
  \/ handleSubmit
  \/ \E taskId \in ListedIds : toggleTaskCompletion(taskId)
  \/ \E taskId \in ListedIds : deleteTask(taskId)
  \/ \E f \in {"all", "active", "completed"} : setFilter(f)
  \/ setSortDirection

SpecViews == InitViews /\ [][NextViews]_vars


\* ================================================================= claims
\* What the last call was.
Returned(e, kind) == e.via = "context" /\ e.kind = kind

\* C1: a container operation called with a user whose gateway call rejects
\* (the store rejects the request, or the client is null) changes neither
\* records nor currentRecord, sets lastError, and leaves isLoading false.
C1_FailedCallLeavesCache ==
  [][(ev'.n # ev.n /\ ev'.via = "context" /\ ev'.outcome # "unauth"
      /\ ev'.stored # "ok") =>
       /\ ev'.outcome = "err"
       /\ records' = records
       /\ currentRecord' = currentRecord
       /\ projectTasks' = projectTasks
       /\ error'[ev'.c] \notin {NoError, ""}
       /\ loading'[ev'.c] = FALSE]_vars

\* A delete was rejected by the store while the cache held two records and a
\* current record.
C1_Witness ==
  /\ Returned(ev, "delete") /\ ev.stored = "rejected" /\ ev.outcome = "err"
  /\ Len(records[ev.c]) >= 2
  /\ currentRecord[ev.c] # Null

\* C3: a successful update(id, fields) with id in records replaces the entry
\* with that identifier by the record the gateway returned, which carries
\* fields, and leaves every other entry, the order and the length as they were.
C3_UpdateReplacesOne ==
  [][(ev'.n # ev.n /\ Returned(ev', "update") /\ ev'.outcome = "ok"
      /\ ev'.id \in IdsOf(records[ev'.c])) =>
       LET old == records[ev'.c]
           new == records'[ev'.c]
       IN /\ ev'.ret = Ret("record", <<Rec(ev'.id, ev'.data)>>)
          /\ Len(new) = Len(old)
          /\ \A k \in DOMAIN old :
               new[k] = IF old[k].Id = ev'.id THEN ev'.ret.val[1] ELSE old[k]
          /\ \A c \in Containers \ {ev'.c} : records'[c] = records[c]]_vars

\* An update returned with its record in a cache that also holds another one.
C3_Witness ==
  /\ Returned(ev, "update") /\ ev.outcome = "ok"
  /\ \E k \in DOMAIN records[ev.c] : records[ev.c][k] = Rec(ev.id, ev.data)
  /\ \E k \in DOMAIN records[ev.c] :
       records[ev.c][k].Id # ev.id /\ records[ev.c][k].val # ev.data

C5_UnauthenticatedNoOp ==
  [][(nIssued' # nIssued /\ user = NoUser) =>
       /\ ev'.n = ev.n + 1
       /\ ev'.outcome = "unauth"
       /\ ev'.ret.val = <<>>
       /\ ev'.ret.tag = CASE ev'.kind \in {"create", "update", "associate"} -> "null"
                          [] ev'.kind = "delete" -> "false"
                          [] OTHER -> "undefined"
       /\ UNCHANGED <<records, currentRecord, projectTasks, loading, error>>
       /\ UNCHANGED <<calls, inflight, apperClient, nClients, tables, assocs>>]_vars

\* A delete was called with no user on a cache that holds records.
C5_Witness ==
  /\ Returned(ev, "delete") /\ ev.outcome = "unauth"
  /\ user = NoUser
  /\ records[ev.c] # <<>>


\* How many entries of s carry the identifier i.
Count(s, i) == Cardinality({k \in DOMAIN s : s[k].Id = i})

\* C2: when a create has returned its record, the record's identifier is in
\* records exactly once, whatever else is in flight.
C2_CreatedOnce ==
  [][(ev'.n # ev.n /\ Returned(ev', "create") /\ ev'.outcome = "ok") =>
       Count(records'[ev'.c], ev'.ret.val[1].Id) = 1]_vars


\* C6 as stated: when an operation resolves after another one that was in
\* flight with it, isLoading and lastError hold the later one's outcome.
C6_LaterOutcomeWins ==
  [][(ev'.n # ev.n /\ ev'.via = "context" /\ ev'.during # "none") =>
       /\ loading'[ev'.c] = FALSE
       /\ error'[ev'.c] = IF ev'.stored = "ok" THEN NoError
                          ELSE IF ev'.msg # "" THEN ev'.msg ELSE error'[ev'.c]]_vars

\* C6 amended: the later-resolving operation leaves isLoading false; if it
\* failed, lastError is its message; if it succeeded it does not write
\* lastError, so a failure of the earlier-resolving one stays (unless a call
\* made since has cleared it).
C6_LaterFailureWins ==
  [][(ev'.n # ev.n /\ ev'.via = "context" /\ ev'.during # "none") =>
       /\ loading'[ev'.c] = FALSE
       /\ ev'.stored = "rejected" =>
            /\ error'[ev'.c] \notin {NoError, ""}
            /\ ev'.msg # "" => error'[ev'.c] = ev'.msg
       /\ ev'.stored = "ok" =>
            /\ error'[ev'.c] = error[ev'.c]
            /\ ev'.during # "ok" => error'[ev'.c] \in {ev'.during, NoError}]_vars

\* Both of two overlapping operations have resolved, the later one with
\* success, and lastError is still the earlier one's message.
C6_Witness ==
  /\ ev.via = "context" /\ ev.stored = "ok" /\ ev.outcome = "ok"
  /\ ev.during \notin {"none", "ok"}
  /\ error[ev.c] = ev.during
  /\ inflight = EmptyBag
  /\ ~loading[ev.c]

\* The calls that entered flight in this step.
Entered ==
  {o \in BagToSet(inflight') : CopiesIn(o, inflight') > CopiesIn(o, inflight)}

Quiet == inflight = EmptyBag /\ \A c \in Containers : ~loading[c]

\* C7: an operation called with a user sets isLoading and clears lastError
\* before its gateway call, and clears isLoading when the call has resolved,
\* on success and on failure; so, every gateway call resolving, the containers
\* come to rest with isLoading false and nothing in flight.
C7_LoadingDiscipline ==
  /\ [][(nIssued' # nIssued /\ user # NoUser) =>
          /\ Entered # {}
          /\ \A o \in Entered : loading'[o.c] /\ error'[o.c] = NoError]_vars
  /\ [][(ev'.n # ev.n /\ ev'.via = "context" /\ ev'.outcome # "unauth") =>
          loading'[ev'.c] = FALSE]_vars
  /\ []<>Quiet

\* Two operations overlapped, the second failed, and the container is at rest.
C7_Witness ==
  /\ Quiet
  /\ ev.via = "context" /\ ev.outcome = "err" /\ ev.during # "none"

\* C9 as stated: a request the store rejects is made once, lastError is the
\* rejection's message, and the operation raises the failure to its caller.
C9_RejectionReRaised ==
  [][(ev'.n # ev.n /\ ev'.via = "context" /\ ev'.stored = "rejected") =>
       /\ ev'.tries = 1
       /\ error'[ev'.c] = ev'.msg
       /\ ev'.threw]_vars

\* C9 amended: a request the store rejects is made once; the gateway function
\* rethrows into the operation's catch block; lastError is the rejection's
\* message if it has one, else the operation's fallback message; and the
\* operation raises nothing: it returns nothing (fetchAll), false (delete),
\* an empty list (fetchTasksByProject) or null (the others).
C9_RejectionRecorded ==
  [][(ev'.n # ev.n /\ ev'.via = "context" /\ ev'.stored = "rejected") =>
       /\ ev'.tries = 1
       /\ ev'.outcome = "err"
       /\ ev'.msg # "" => error'[ev'.c] = ev'.msg
       /\ ev'.msg = "" => error'[ev'.c] \notin {NoError, ""}
       /\ (ev'.msg = "" /\ ev'.kind = "create") =>
            error'[ev'.c] = IF ev'.c = "task" THEN "Failed to create task"
                            ELSE "Failed to create project"
       /\ ~ev'.threw
       /\ ev'.ret.val = <<>>
       /\ ev'.ret.tag = CASE ev'.kind = "fetchAll" -> "undefined"
                          [] ev'.kind = "delete" -> "false"
                          [] ev'.kind = "tasksByProject" -> "list"
                          [] OTHER -> "null"]_vars

\* A create was rejected with an empty message: the fallback is lastError.
C9_Witness ==
  /\ Returned(ev, "create") /\ ev.stored = "rejected" /\ ev.msg = ""
  /\ error[ev.c] \in {"Failed to create task", "Failed to create project"}
  /\ ev.ret = Ret("null", <<>>)

\* C10: a fetchById the store answers with no record is no failure: the
\* operation returns null, currentRecord is none, isLoading is false, records
\* is as it was and lastError is not written (it is none unless another
\* operation failed meanwhile).
C10_NotFoundIsNull ==
  [][(ev'.n # ev.n /\ Returned(ev', "fetchById") /\ ev'.stored = "ok"
      /\ ev'.found = 0) =>
       /\ ev'.outcome = "ok"
       /\ ev'.ret = Ret("null", <<>>)
       /\ currentRecord'[ev'.c] = Null
       /\ error'[ev'.c] = error[ev'.c]
       /\ ev'.during = "none" => error'[ev'.c] = NoError
       /\ loading'[ev'.c] = FALSE
       /\ records' = records]_vars

\* A record was current, and a fetchById that found nothing cleared it.
C10_Witness ==
  /\ Returned(ev, "fetchById") /\ ev.stored = "ok" /\ ev.found = 0
  /\ ev.cur # Null
  /\ currentRecord[ev.c] = Null
  /\ error[ev.c] = NoError


\* C8: a gateway function called while no client exists and none can be
\* constructed makes no request to the record store and throws the
\* uninitialized-client error; and once a client has been constructed it is
\* the only one ever constructed, and every later call goes out through it.
C8_UninitializedGateway ==
  [][/\ (nIssued' # nIssued /\ apperClient = 0 /\ ~sdk) =>
          /\ calls' = calls
          /\ apperClient' = 0
          /\ \A o \in Entered : o.client = 0 /\ o.phase = "thrown"
          /\ Entered # {}
     /\ (ev'.n # ev.n /\ ev'.stored = "none") =>
          /\ ev'.outcome = "err" /\ ev'.threw
          /\ ev'.msg = Uninitialized
          /\ ev'.tries = 0
          /\ UNCHANGED <<calls, tables, assocs>>
     /\ apperClient # 0 => apperClient' = apperClient
     /\ nClients' <= 1
     /\ (nIssued' # nIssued /\ (apperClient # 0 \/ sdk)) =>
          /\ Entered # {}
          /\ \A o \in Entered : o.client = apperClient' /\ o.client # 0
          /\ \E t \in DOMAIN calls : calls'[t] = calls[t] + 1
     /\ \A o \in BagToSet(inflight') : o.client \in {0, apperClient'}]_vars

\* updateUser failed for want of a client, and a later call is out through
\* the client constructed since.
C8_Witness ==
  /\ ev.via = "service" /\ ev.c = "user" /\ ev.kind = "update"
  /\ ev.msg = Uninitialized /\ ev.threw
  /\ apperClient # 0
  /\ \E o \in InFlight : o.client = apperClient


\* The calls that took a step: they left flight, or went on to another request.
Moved ==
  {o \in BagToSet(inflight) : CopiesIn(o, inflight') < CopiesIn(o, inflight)}

TaskIdsOf(assoc) == {assoc[k].task_id : k \in DOMAIN assoc}

\* C11: fetchTasksByProject whose association query found nothing returns an
\* empty list and makes no request to the task table; if it found
\* associations, it makes one request to the task table, filtered by the task
\* identifiers of all of them, and none after that one.
C11_TasksForProject ==
  [][\A o \in Moved :
       (o.kind = "tasksByProject" /\ o.phase = "resp" /\ o.resp.ok) =>
         IF o.stage = 1 /\ Len(o.resp.assoc) = 0
         THEN /\ ev'.n # ev.n /\ ev'.outcome = "ok"
              /\ ev'.ret = Ret("list", <<>>)
              /\ calls' = calls
         ELSE IF o.stage = 1
         THEN /\ ev' = ev
              /\ calls' = [calls EXCEPT ![TableNames.task] = @ + 1]
              /\ \E p \in Entered :
                   /\ p.stage = 2 /\ p.phase = "sent"
                   /\ p.ids = TaskIdsOf(o.resp.assoc)
         ELSE /\ ev'.n # ev.n /\ ev'.outcome = "ok"
              /\ ev'.ret = Ret("list", o.resp.data)
              /\ calls' = calls]_vars

\* Two calls have returned: one found an association and queried the task
\* table, the other found none and returned the empty list without a query.
C11_Witness ==
  /\ ev.via = "service" /\ ev.kind = "tasksByProject"
  /\ ev.stored = "ok" /\ ev.found = 0 /\ ev.ret = Ret("list", <<>>)
  /\ calls[TASK_PROJECT] = 2
  /\ calls[TableNames.task] = 1
  /\ inflight = EmptyBag


\* The association records of one (task, project) pair.
PairCount(s, t, p) ==
  Cardinality({k \in DOMAIN s : s[k].task_id = t /\ s[k].project_id = p})

\* C12: associateWithProject makes one createRecord request and no other;
\* each request the store carries out adds one association record, whether or
\* not the pair is associated already; and the operation, once resolved,
\* leaves the Task container's records and currentRecord as they were.
C12_AssociateAppends ==
  [][/\ \A o \in Entered :
          (nIssued' # nIssued /\ o.kind = "associate" /\ o.client # 0) =>
            /\ calls' = [calls EXCEPT ![TASK_PROJECT] = @ + 1]
            /\ assocs' = assocs
     /\ \A o \in Moved :
          (o.kind = "associate" /\ o.phase = "sent"
           /\ \E p \in Entered :
                p.resp.ok /\ p = [o EXCEPT !.phase = "resp", !.resp = p.resp]) =>
            /\ calls' = calls
            /\ Len(assocs') = Len(assocs) + 1
            /\ PairCount(assocs', o.id, o.pid) = PairCount(assocs, o.id, o.pid) + 1
     /\ (ev'.n # ev.n /\ Returned(ev', "associate") /\ ev'.outcome = "ok") =>
          /\ records' = records
          /\ currentRecord' = currentRecord
          /\ assocs' = assocs
          /\ calls' = calls
          /\ ev'.tries = 1
          /\ ev'.ret.tag = "record"]_vars

\* The task was associated with the project already; two more calls with the
\* same pair have succeeded, the task is in records, and the pair has three
\* association records.
C12_Witness ==
  /\ Returned(ev, "associate") /\ ev.outcome = "ok" /\ ev.n = 2
  /\ inflight = EmptyBag
  /\ calls[TASK_PROJECT] = 2
  /\ PairCount(assocs, ev.id, 1) = 3


\* C13: a fetchAll called after a fetchAll has completed, with nothing else
\* completing or in flight from the first call's start to the second's end
\* (so neither the store nor the container was changed in between), leaves
\* records as the first left it, in order and content.
C13_FetchAllIdempotent ==
  [][(/\ ev'.n # ev.n
      /\ Returned(ev', "fetchAll") /\ ev'.outcome = "ok" /\ ev'.during = "none"
      /\ Returned(ev, "fetchAll") /\ ev.outcome = "ok" /\ ev.during = "none"
      /\ inflight' = EmptyBag) =>
       /\ ev'.again
       /\ records'[ev'.c] = records[ev'.c]
       /\ records'[ev'.c] = tables[TableNames[ev'.c]]]_vars

\* Two fetchAll calls in succession have succeeded and records is not empty.
C13_Witness ==
  /\ Returned(ev, "fetchAll") /\ ev.again /\ ev.during = "none"
  /\ inflight = EmptyBag
  /\ records[ev.c] # <<>>


\* C14: update(id, fields) with no entry of that identifier in records still
\* sends the update request; when the store has carried it out, records is as
\* it was, lastError is not written (it is none unless another operation
\* failed meanwhile), and the operation returns the updated record.
C14_UpdateOfAbsent ==
  [][/\ \A o \in Entered :
          (nIssued' # nIssued /\ o.kind = "update" /\ o.client # 0
           /\ o.id \notin IdsOf(records[o.c])) =>
            /\ o.phase = "sent"
            /\ calls' = [calls EXCEPT ![TableNames[o.c]] = @ + 1]
     /\ (ev'.n # ev.n /\ Returned(ev', "update") /\ ev'.stored = "ok"
         /\ ev'.id \notin IdsOf(records[ev'.c])) =>
          /\ ev'.outcome = "ok" /\ ~ev'.threw
          /\ ev'.ret = Ret("record", <<Rec(ev'.id, ev'.data)>>)
          /\ records' = records
          /\ error'[ev'.c] = error[ev'.c]
          /\ ev'.during = "none" => error'[ev'.c] = NoError]_vars

\* An update of a record the store holds and records lacks has succeeded;
\* records holds another record, and lastError is none.
C14_Witness ==
  /\ Returned(ev, "update") /\ ev.outcome = "ok"
  /\ records[ev.c] # <<>>
  /\ ev.id \notin IdsOf(records[ev.c])
  /\ error[ev.c] = NoError


\* C15: the Home page's list is what localStorage['tasks'] holds, in every
\* state: each add, toggle and delete writes the whole list in the step that
\* changes it, and a page mounted afterwards loads that list.
C15_ListIsSaved ==
  /\ [](savedTasks.present /\ loadTasks(savedTasks) = tasks)
  /\ [][mountHome => tasks' = tasks]_vars

\* The page was visited again after a task was added and completed: the list
\* it loaded holds that task, completed.
C15_Witness ==
  /\ lev.kind = "mount"
  /\ \E k \in DOMAIN tasks :
       tasks[k].id # EarlierTask.id /\ tasks[k].isCompleted

\* C16: a submit that passes validation appends one task to the list, not
\* completed, completedAt null, createdAt the current time, with a non-empty
\* identifier, and leaves the tasks before it as they were, in order; so the
\* list grows by one with every accepted add.
C16_AddAppendsOne ==
  [][(handleSubmit /\ validateForm(formData) = NoErrors) =>
       /\ Len(tasks') = Len(tasks) + 1
       /\ SubSeq(tasks', 1, Len(tasks)) = tasks
       /\ nAdded' = nAdded + 1
       /\ LET new == tasks'[Len(tasks')] IN
            /\ ~new.isCompleted
            /\ new.completedAt = NullDate
            /\ new.createdAt = toISOString(now)
            /\ new.id # ""
            /\ new.title = formData.title]_vars

\* Two tasks were added to an empty list, and nothing else happened to it.
C16_Witness ==
  /\ lev.kind = "add" /\ nAdded = 2
  /\ Len(tasks) = 2
  /\ \A k \in DOMAIN tasks : ~tasks[k].isCompleted

\* C17: the identifiers of the tasks of the list are pairwise distinct.
C17_DistinctIds ==
  \A i, j \in DOMAIN tasks : i # j => tasks[i].id # tasks[j].id

\* C18: toggleTaskCompletion(id) completes a task that was not completed,
\* with completedAt the current time, and reopens a completed one, with
\* completedAt null; it changes nothing else of that task, no task with
\* another identifier, and neither the order nor the length of the list.
C18_ToggleFlips ==
  [][\A taskId \in ListedIds : toggleTaskCompletion(taskId) =>
       /\ Len(tasks') = Len(tasks)
       /\ \A k \in DOMAIN tasks :
            IF tasks[k].id # taskId THEN tasks'[k] = tasks[k]
            ELSE /\ tasks'[k].id = tasks[k].id
                 /\ tasks'[k].title = tasks[k].title
                 /\ tasks'[k].createdAt = tasks[k].createdAt
                 /\ tasks'[k].isCompleted = ~tasks[k].isCompleted
                 /\ tasks[k].isCompleted => tasks'[k].completedAt = NullDate
                 /\ ~tasks[k].isCompleted =>
                      /\ tasks'[k].completedAt # NullDate
                      /\ tasks'[k].completedAt = toISOString(now)]_vars

\* A task added here was completed and reopened, next to another task that
\* is still completed.
C18_Witness ==
  /\ lev.kind = "toggle"
  /\ \E k \in DOMAIN tasks :
       /\ tasks[k].id = lev.id /\ tasks[k].id # EarlierTask.id
       /\ ~tasks[k].isCompleted /\ tasks[k].completedAt = NullDate
  /\ \E k \in DOMAIN tasks : tasks[k].id # lev.id /\ tasks[k].isCompleted

\* C19: deleteTask(id) leaves no task with that identifier, and the tasks
\* with another identifier exactly as they were, in their order; a list of
\* one task is empty after that task is deleted.
C19_DeleteRemoves ==
  [][\A taskId \in ListedIds : deleteTask(taskId) =>
       /\ \A k \in DOMAIN tasks' : tasks'[k].id # taskId
       /\ tasks' = SelectSeq(tasks, LAMBDA task : task.id # taskId)
       /\ Len(tasks') < Len(tasks)
       /\ Len(tasks) = 1 => tasks' = <<>>
       /\ (\A i, j \in DOMAIN tasks : i # j => tasks[i].id # tasks[j].id) =>
            Len(tasks') = Len(tasks) - 1]_vars

\* The first of the tasks added here was deleted; the task saved earlier and
\* the one added after it are still there.
C19_Witness ==
  /\ lev.kind = "delete" /\ nAdded = 2
  /\ Len(tasks) = 2
  /\ tasks[1] = EarlierTask
  /\ tasks[2].id # lev.id

\* C20: a submit with a title that is empty once trimmed sets the
\* title-required error and adds nothing: the list, the saved list and the
\* form are as they were, the form stays open; so the add stays blocked as
\* long as the title is blank.
C20_BlankTitleRejected ==
  [][(handleSubmit /\ Trim(formData.title) = "") =>
       /\ errors'.title = "Title is required"
       /\ tasks' = tasks
       /\ savedTasks' = savedTasks
       /\ nAdded' = nAdded
       /\ formData' = formData
       /\ isFormOpen']_vars

\* A submit with a title of one space was rejected; the list is not empty.
C20_Witness ==
  /\ lev.kind = "reject"
  /\ formData.title = " "
  /\ errors.title = "Title is required"
  /\ isFormOpen
  /\ tasks # <<>>


\* C21: a submit sets the due-date error exactly when a due date is supplied
\* and its day is before the current day of the client's local time, in
\* every time zone: yesterday's date is rejected, today's is accepted.
C21_DueDateBeforeToday ==
  [][handleSubmit =>
       (errors'.dueDate # NoFieldError <=>
          /\ formData.dueDate # NoDate
          /\ \E d \in Days : DateString(d) = formData.dueDate /\ d < LocalDay)]_vars


\* C22: choosing a filter or turning the sort direction leaves the list and
\* the saved list exactly as they were, the order of the list included.
C22_ViewsLeaveListAlone ==
  [][((\E f \in {"all", "active", "completed"} : setFilter(f)) \/ setSortDirection) =>
       tasks' = tasks /\ savedTasks' = savedTasks]_vars

\* The sort was turned back to newest first over two tasks created at
\* different times: the rows are shown in the reverse of the list's order.
C22_Witness ==
  /\ lev = HomeEvent("sort", "desc")
  /\ Len(tasks) = 2
  /\ tasks[1].createdAt # tasks[2].createdAt
  /\ sortedTasks = <<tasks[2], tasks[1]>>


\* C23: the authentication container goes from an identity to none only by
\* logout, and after such a step localStorage['apperUser'] is absent.
C23_OnlySignOut ==
  [][(user # NoUser /\ user' = NoUser) => (logout /\ apperUser' = "null")]_vars

\* C24: the authentication container starts loading, with no identity; it
\* takes an identity only from the widget's success callback or, in the
\* startup check, from a session record that parses; the startup check ends
\* the loading state whatever it finds, and the loading state never returns.
C24_AuthStartup ==
  /\ (authLoading = TRUE /\ user = NoUser)
  /\ [][/\ (user' # user /\ user' # NoUser) =>
            \/ \E u \in Identities : handleAuthSuccess(u)
            \/ loadUserData /\ apperUser \in Identities /\ user' = apperUser
        /\ loadUserData => ~authLoading'
        /\ ~authLoading => ~authLoading']_vars

\* The startup check found no session that parses, and the widget signed
\* bob in afterwards.
C24_Witness ==
  /\ ~authLoading
  /\ user = "bob"
  /\ widget

\* C30: an identity held by the authentication container is the one that
\* localStorage['apperUser'] holds.
C30_IdentityIsCached ==
  user # NoUser => apperUser = user

\* alice's session was cached at the start and bob signed in through the
\* widget: the container and the session record both hold bob.
C30_Witness ==
  /\ user = "bob"
  /\ apperUser = "bob"
  /\ nClients > 0


\* C25: every entity type (task, project, user) has the gateway operations
\* list, getById, create, update and delete, and has an entity state
\* container holding records, currentRecord, isLoading and lastError.
C25_SameShape ==
  \A c \in Entities :
    /\ {"fetchAll", "fetchById", "create", "update", "delete"} \subseteq Kinds(c)
    /\ c \in DOMAIN records /\ c \in DOMAIN currentRecord
    /\ c \in DOMAIN loading /\ c \in DOMAIN error


\* C26: while the authentication container holds no identity, no container's
\* records, currentRecord, loading or error changes.
C26_FrozenWhileAnonymous ==
  [][(user = NoUser /\ user' = NoUser) =>
       UNCHANGED <<records, currentRecord, loading, error>>]_vars


\* C27: when a successful update(id, fields) applies its result and
\* currentRecord has identifier id at that moment, currentRecord is the
\* updated record afterwards.
C27_CurrentFollowsUpdate ==
  [][(ev'.n # ev.n /\ Returned(ev', "update") /\ ev'.outcome = "ok"
      /\ currentRecord[ev'.c] # Null /\ currentRecord[ev'.c].Id = ev'.id) =>
       currentRecord'[ev'.c] = ev'.ret.val[1]]_vars


\* C28: a container with an operation in flight (called, not yet returned)
\* has loading true.
C28_LoadingWhileInFlight ==
  \A c \in Containers :
    (\E o \in InFlight : o.via = "context" /\ o.c = c) => loading[c]


\* C29: every element of a container's records is a record with an
\* identifier, whatever the store's successful responses carry.
C29_RecordsAreRecords ==
  \A c \in Containers : \A k \in DOMAIN records[c] :
    records[c][k] # Undefined /\ records[c][k].Id \in 1..MaxId

=============================================================================
